---- MODULE Spec2Model ----
(***************************************************************************)
(* Dataset preparation pipeline of tools/datasets/corpora.py:              *)
(* prepare_dataset -> maybe_download_gpt2_tokenizer_data -> registry       *)
(* lookup -> DataDownloader.__init__ -> prepare -> (customdataset_from_text*)
(* | download) -> tokenize.                                                *)
(*                                                                         *)
(* Paths, URLs and command arguments are strings, built and taken apart    *)
(* the way the Python code does it (f-strings, os.path.join,               *)
(* os.path.basename, str.split, str.lower, str.endswith).  The file system *)
(* is a set of directories and a set of files, keyed by normalised         *)
(* absolute path.  The external processes (wget, preprocess_data.py) are   *)
(* collaborators: every invocation is recorded in the calling process' log *)
(* and its exit status is chosen nondeterministically.                     *)
(***************************************************************************)
EXTENDS Integers, Sequences, FiniteSets, TLC

(***************************************************************************)
(* Bounds of the model.                                                    *)
(***************************************************************************)
\* range(30), range(1024) and range(512) of the Pile / C4 url lists are cut
\* to their first RangeCap elements.
RangeCap == 2
\* Number of prepare_dataset calls in one behaviour.
MaxCalls == 2

(***************************************************************************)
(* Python values.                                                          *)
(***************************************************************************)
\* None for string-valued arguments; str(None) is "None" in an f-string.
None == "<None>"
\* None for integer-valued attributes (num_workers, num_docs).
NoneInt == 0 - 1

Str(v) == IF v = None THEN "None" ELSE v

Digit(n) ==
    CASE n = 0 -> "0" [] n = 1 -> "1" [] n = 2 -> "2" [] n = 3 -> "3"
      [] n = 4 -> "4" [] n = 5 -> "5" [] n = 6 -> "6" [] n = 7 -> "7"
      [] n = 8 -> "8" [] n = 9 -> "9"

RECURSIVE IntStr(_)
\* str(n) for n >= 0
IntStr(n) == IF n < 10 THEN Digit(n) ELSE IntStr(n \div 10) \o Digit(n % 10)

RECURSIVE ZeroPad(_, _)
\* f"{i:0w}"
ZeroPad(s, w) == IF Len(s) >= w THEN s ELSE ZeroPad("0" \o s, w)

\* str.endswith
endswith(s, suffix) ==
    /\ Len(s) >= Len(suffix)
    /\ SubSeq(s, Len(s) - Len(suffix) + 1, Len(s)) = suffix

\* str.startswith
startswith(s, prefix) ==
    /\ Len(s) >= Len(prefix)
    /\ SubSeq(s, 1, Len(prefix)) = prefix

RECURSIVE FindSlash(_, _)
\* index of the first "/" of s at or after position i, 0 when there is none
FindSlash(s, i) ==
    IF i > Len(s) THEN 0
    ELSE IF SubSeq(s, i, i) = "/" THEN i ELSE FindSlash(s, i + 1)

RECURSIVE RFindSlash(_, _)
\* index of the last "/" of s at or before position i, 0 when there is none
RFindSlash(s, i) ==
    IF i <= 0 THEN 0
    ELSE IF SubSeq(s, i, i) = "/" THEN i ELSE RFindSlash(s, i - 1)

\* s.split('/')[0]
SplitHead(s) ==
    LET k == FindSlash(s, 1) IN IF k = 0 THEN s ELSE SubSeq(s, 1, k - 1)

LowerChar(c) ==
    CASE c = "A" -> "a" [] c = "B" -> "b" [] c = "C" -> "c" [] c = "D" -> "d"
      [] c = "E" -> "e" [] c = "F" -> "f" [] c = "G" -> "g" [] c = "H" -> "h"
      [] c = "I" -> "i" [] c = "J" -> "j" [] c = "K" -> "k" [] c = "L" -> "l"
      [] c = "M" -> "m" [] c = "N" -> "n" [] c = "O" -> "o" [] c = "P" -> "p"
      [] c = "Q" -> "q" [] c = "R" -> "r" [] c = "S" -> "s" [] c = "T" -> "t"
      [] c = "U" -> "u" [] c = "V" -> "v" [] c = "W" -> "w" [] c = "X" -> "x"
      [] c = "Y" -> "y" [] c = "Z" -> "z" [] OTHER -> c

RECURSIVE lower(_)
\* str.lower
lower(s) ==
    IF s = "" THEN ""
    ELSE LowerChar(SubSeq(s, 1, 1)) \o lower(SubSeq(s, 2, Len(s)))

\* os.path.basename
basename(p) == SubSeq(p, RFindSlash(p, Len(p)) + 1, Len(p))

\* os.path.join of two parts
join(a, b) ==
    IF startswith(b, "/") THEN b
    ELSE IF a = "" \/ endswith(a, "/") THEN a \o b
    ELSE a \o "/" \o b

RECURSIVE PyListItems(_)
PyListItems(seq) ==
    IF seq = <<>> THEN ""
    ELSE "'" \o seq[1] \o "'"
             \o (IF Len(seq) = 1 THEN "" ELSE ", " \o PyListItems(Tail(seq)))

\* str() of a list of strings
PyList(seq) == "[" \o PyListItems(seq) \o "]"

RECURSIVE JoinComma(_)
\* ",".join(seq)
JoinComma(seq) ==
    IF seq = <<>> THEN ""
    ELSE IF Len(seq) = 1 THEN seq[1]
    ELSE seq[1] \o "," \o JoinComma(Tail(seq))

(***************************************************************************)
(* File system.                                                            *)
(***************************************************************************)
\* Working directory of the process; relative paths resolve against it.
Cwd == "/content/gpt-neox"

RECURSIVE NormFrom(_, _)
\* the components of s from position i on, each prefixed by "/", without
\* the empty and the "." components
NormFrom(s, i) ==
    IF i > Len(s) THEN ""
    ELSE LET k == FindSlash(s, i)
             e == IF k = 0 THEN Len(s) + 1 ELSE k
             c == SubSeq(s, i, e - 1)
         IN  (IF c = "" \/ c = "." THEN "" ELSE "/" \o c) \o NormFrom(s, e + 1)

\* The file system's view of a path: absolute, no "//", no "." component.
Abs(p) == IF startswith(p, "/") THEN NormFrom(p, 1)
          ELSE Cwd \o NormFrom(p, 1)

\* Directory part of a normalised absolute path.
Parent(q) == SubSeq(q, 1, RFindSlash(q, Len(q)) - 1)

RECURSIVE Chain(_)
\* a normalised absolute path and all its ancestors
Chain(q) == IF q = "" THEN {} ELSE {q} \cup Chain(Parent(q))

(***************************************************************************)
(* The dataset classes and the registry.                                   *)
(***************************************************************************)
GPT2_VOCAB_URL ==
    "https://huggingface.co/datasets/RaviChandera/gpt2-vocab/raw/main/gpt2-vocab.json"
GPT2_MERGE_URL ==
    "https://huggingface.co/datasets/RaviChandera/gpt2-merges/raw/main/gpt2-merges.txt"

Min(a, b) == IF a < b THEN a ELSE b

\* A class of the registry: its class attributes.  urls_none says that the
\* class sets urls = None; num_docs is NoneInt when the class inherits the
\* num_docs property of DataDownloader (which returns None).
Downloader(nm, us, nd) ==
    [name |-> nm, urls |-> us, urls_none |-> FALSE, num_docs |-> nd]

PileUrl(i) ==
    "https://the-eye.eu/public/AI/pile/train/" \o ZeroPad(IntStr(i), 2) \o ".jsonl.zst"

C4Url(i) ==
    "https://the-eye.eu/eleuther_staging/c4/en/c4-train." \o ZeroPad(IntStr(i), 5)
        \o "-of-01024.json.gz"

C4OpenWebTextUrl(i) ==
    "https://the-eye.eu/eleuther_staging/c4/realnewslike/c4-train."
        \o ZeroPad(IntStr(i), 5) \o "-of-00512.json.gz"

Enron ==
    Downloader("enron", <<"http://eaidata.bmk.sh/data/enron_emails.jsonl.zst">>, 517401)

PileSubset ==
    Downloader("pile_00", <<"https://the-eye.eu/public/AI/pile/train/00.jsonl.zst">>,
               NoneInt)

Pile ==
    Downloader("pile", [i \in 1 .. Min(30, RangeCap) |-> PileUrl(i - 1)], NoneInt)

Github ==
    Downloader("github", <<"http://eaidata.bmk.sh/data/github_small.jsonl.zst">>, NoneInt)

ArXiv ==
    Downloader("arxiv",
        <<"https://the-eye.eu/public/AI/pile_preliminary_components/2020-09-08-arxiv-extracts-nofallback-until-2007-068.tar.gz">>,
        NoneInt)

EuroParl ==
    Downloader("europarl",
        <<"https://the-eye.eu/public/AI/pile_preliminary_components/EuroParliamentProceedings_1996_2011.jsonl.zst">>,
        NoneInt)

FreeLaw ==
    Downloader("freelaw",
        <<"https://the-eye.eu/public/AI/pile_preliminary_components/FreeLaw_Opinions.jsonl.zst">>,
        NoneInt)

NiH ==
    Downloader("nih",
        <<"https://the-eye.eu/public/AI/pile_preliminary_components/NIH_ExPORTER_awarded_grant_text.jsonl.zst">>,
        NoneInt)

PubMed ==
    Downloader("pubmed",
        <<"https://the-eye.eu/public/AI/pile_preliminary_components/PMC_extracts.tar.gz">>,
        NoneInt)

Books1 ==
    Downloader("books1",
        <<"https://the-eye.eu/public/AI/pile_preliminary_components/books1.tar.gz">>,
        NoneInt)

Books3 ==
    Downloader("books3",
        <<"https://the-eye.eu/public/AI/pile_preliminary_components/books3.tar.gz">>,
        NoneInt)

HackerNews ==
    Downloader("hackernews",
        <<"https://the-eye.eu/public/AI/pile_preliminary_components/hn.tar.gz">>, 373000)

OpenWebText2 ==
    Downloader("openwebtext2",
        <<"https://huggingface.co/datasets/segyges/OpenWebText2/resolve/main/openwebtext2.jsonl.zst.tar">>,
        17103000)

StackExchange ==
    Downloader("stackexchange",
        <<"https://the-eye.eu/public/AI/pile_preliminary_components/stackexchange_dataset.tar">>,
        NoneInt)

UbuntuIRC ==
    Downloader("ubuntu_irc",
        <<"https://the-eye.eu/public/AI/pile_preliminary_components/ubuntu_irc_until_2020_9_1.jsonl.zst">>,
        NoneInt)

YoutubeSubtitles ==
    Downloader("youtube_subtitles",
        <<"https://the-eye.eu/public/AI/pile_preliminary_components/yt_subs.jsonl.zst">>,
        NoneInt)

C4 ==
    Downloader("c4", [i \in 1 .. Min(1024, RangeCap) |-> C4Url(i - 1)], NoneInt)

C4OpenWebText ==
    Downloader("c4_openwebtext",
        [i \in 1 .. Min(512, RangeCap) |-> C4OpenWebTextUrl(i - 1)], NoneInt)

CustomDataset ==
    [name |-> "customdataset", urls |-> <<>>, urls_none |-> TRUE, num_docs |-> NoneInt]

\* The registry value that is not a class.
PassSentinel == [name |-> "pass", urls |-> <<>>, urls_none |-> TRUE, num_docs |-> NoneInt]

\* list(DATA_DOWNLOADERS.keys()), in insertion order
RegistryKeys ==
    <<"pass", "enron", "pile_subset", "pile", "github", "arxiv", "europarl",
      "freelaw", "nih", "pubmed", "books1", "books3", "hackernews",
      "openwebtext2", "stackexchange", "ubuntu_irc", "youtube_subtitles",
      "c4", "c4_openwebtext", "customdataset">>

DATA_DOWNLOADERS ==
    [k \in {RegistryKeys[i] : i \in DOMAIN RegistryKeys} |->
        CASE k = "pass" -> PassSentinel
          [] k = "enron" -> Enron
          [] k = "pile_subset" -> PileSubset
          [] k = "pile" -> Pile
          [] k = "github" -> Github
          [] k = "arxiv" -> ArXiv
          [] k = "europarl" -> EuroParl
          [] k = "freelaw" -> FreeLaw
          [] k = "nih" -> NiH
          [] k = "pubmed" -> PubMed
          [] k = "books1" -> Books1
          [] k = "books3" -> Books3
          [] k = "hackernews" -> HackerNews
          [] k = "openwebtext2" -> OpenWebText2
          [] k = "stackexchange" -> StackExchange
          [] k = "ubuntu_irc" -> UbuntuIRC
          [] k = "youtube_subtitles" -> YoutubeSubtitles
          [] k = "c4" -> C4
          [] k = "c4_openwebtext" -> C4OpenWebText
          [] k = "customdataset" -> CustomDataset]

(***************************************************************************)
(* State.                                                                  *)
(***************************************************************************)
VARIABLES
    dirs,       \* the directories that exist (normalised absolute paths)
    files,      \* the regular files that exist (normalised absolute paths)
    archive,    \* archive path -> the member names of the zip file there
    environ,    \* value of the environment variable DATA_DIR, or None
    pc,         \* per process: position in prepare_dataset
    call,       \* per process: arguments of the running prepare_dataset call
    data_dir,   \* per process: local data_dir of prepare_dataset
    d,          \* per process: the DataDownloader instance
    url_i,      \* per process: index of the url download() is at
    jsonl,      \* per process: jsonl_filepath argument of tokenize
    log,        \* per process: external effects of the call so far, in order
    exc,        \* per process: the exception the call raised
    existed,    \* per process: whether the dataset directory was there when
                \* prepare() was entered
    hist,       \* the calls that are over, oldest first
    ncalls      \* number of calls started

vars == <<dirs, files, archive, environ, pc, call, data_dir, d, url_i, jsonl,
          log, exc, existed, hist, ncalls>>

Procs == {1, 2}

PyTrue == "True"
PyFalse == "False"

NoCall ==
    [dataset_name |-> "", tokenizer_type |-> None, data_dir |-> None,
     vocab_file |-> None, merge_file |-> None, force_redownload |-> None,
     num_workers |-> NoneInt]

NoDesc ==
    [cls |-> PassSentinel, _tokenizer_type |-> None, _merge_file |-> None,
     _vocab_file |-> None, _data_dir |-> None, _force_redownload |-> PyFalse,
     _num_workers |-> NoneInt, dataset_name |-> None]

NoExc == [type |-> "", msg |-> ""]

NoCmd ==
    [input |-> "", output_prefix |-> "", vocab |-> "", dataset_impl |-> "",
     tokenizer_type |-> "", merge_file |-> "", append_eod |-> FALSE,
     workers |-> NoneInt, num_docs |-> NoneInt, ftfy |-> FALSE]

\* One external effect: op is "makedirs", "wget", "zip" or "preprocess".
Event(op, url, path, status, cmd) ==
    [op |-> op, url |-> url, path |-> path, status |-> status, cmd |-> cmd]

Range(f) == {f[i] : i \in DOMAIN f}

(***************************************************************************)
(* File system operations.                                                 *)
(***************************************************************************)
\* os.path.isdir
isdir(p) == Abs(p) \in dirs

\* os.path.isfile
isfile(p) == Abs(p) \in files

\* the directories after os.makedirs(p, exist_ok=True)
makedirs(p) == dirs \cup Chain(Abs(p))

\* an os.makedirs without exist_ok
MakedirsFails_NoExistOk(p) == isdir(p)

\* os.makedirs(p, exist_ok=True) raises FileExistsError: never for a
\* directory that is already there
MakedirsFails(p) == FALSE

\* the exception of an os.makedirs that finds its directory
FileExists(p) == [type |-> "FileExistsError", msg |-> p]

\* os.listdir: the names of the entries directly under directory p
listdir(p) == {basename(q) : q \in {e \in files \cup dirs : Parent(e) = Abs(p)}}

\* os.environ.get("DATA_DIR", "./data")
EnvDataDir == IF environ = None THEN "./data" ELSE environ

(***************************************************************************)
(* DataDownloader.                                                         *)
(***************************************************************************)
\* multiprocessing.cpu_count() of the machine
cpu_count == 8

\* an __init__ without the assertion of its last branch
InitAsserts_Never(tokenizer_type, vocab_file) == FALSE

\* __init__ fails on its assertion: no vocab file given and a tokenizer type
\* without a default
InitAsserts(tokenizer_type, vocab_file) ==
    LET tt == IF tokenizer_type = None THEN "GPT2BPETokenizer" ELSE tokenizer_type
    IN  /\ vocab_file = None
        /\ tt \notin {"GPT2BPETokenizer", "HFGPT2Tokenizer", "CharLevelTokenizer"}

\* __init__: the instance of class cls
DataDownloader(cls, tokenizer_type, merge_file, vocab_file, datadir, force_redownload, num_workers, dataset_name) ==
    LET tt == IF tokenizer_type = None THEN "GPT2BPETokenizer" ELSE tokenizer_type
        dd == IF datadir = None THEN EnvDataDir ELSE datadir
        mf == IF merge_file = None THEN dd \o "/gpt2-merges.txt" ELSE merge_file
        fr == IF force_redownload = None THEN PyFalse ELSE force_redownload
        vf == IF vocab_file # None THEN vocab_file
              ELSE IF tt = "GPT2BPETokenizer" THEN dd \o "/gpt2-vocab.json"
              ELSE IF tt = "HFGPT2Tokenizer" THEN "gpt2"
              ELSE None
        nw == IF num_workers = NoneInt THEN cpu_count ELSE num_workers
    IN  [cls |-> cls, _tokenizer_type |-> tt, _merge_file |-> mf,
         _vocab_file |-> vf, _data_dir |-> dd, _force_redownload |-> fr,
         _num_workers |-> nw, dataset_name |-> dataset_name]

\* the base_dir property
base_dir(self) == self._data_dir

\* the ftfy property
ftfy(self) == FALSE

\* an exists() that wants every source file to be there
exists_EverySource(self) ==
    /\ isdir(base_dir(self) \o "/" \o self.cls.name)
    /\ \A i \in DOMAIN self.cls.urls :
          isfile(join(join(base_dir(self), self.cls.name), basename(self.cls.urls[i])))

\* exists()
exists(self) == isdir(base_dir(self) \o "/" \o self.cls.name)

\* a download() that writes next to the dataset directory
DownloadTarget_InRoot(self, url) == join(base_dir(self), basename(url))

\* the file download() writes the url to
DownloadTarget(self, url) == join(join(base_dir(self), self.cls.name), basename(url))

\* the message of the exception download() raises for a url
DownloadError(url) ==
    [type |-> "Exception",
     msg |-> "Download error: " \o "Cannot download file at URL " \o url
                 \o ": server may be down"]

\* tokenize(): the input of the preprocessing command
TokenizeInput(self, jsonl_filepath) ==
    LET parent_folder == join(base_dir(self), self.cls.name)
    IN  IF jsonl_filepath # None THEN jsonl_filepath
        ELSE JoinComma([i \in DOMAIN self.cls.urls |->
                            join(parent_folder, basename(self.cls.urls[i]))])

\* tokenize(): the arguments of the preprocessing command
TokenizeCmd(self, jsonl_filepath) ==
    LET parent_folder == join(base_dir(self), self.cls.name)
    IN  [input |-> TokenizeInput(self, jsonl_filepath),
         output_prefix |-> parent_folder \o "/" \o self.cls.name,
         vocab |-> Str(self._vocab_file),
         dataset_impl |-> "mmap",
         tokenizer_type |-> Str(self._tokenizer_type),
         merge_file |-> Str(self._merge_file),
         append_eod |-> TRUE,
         workers |-> self._num_workers,
         num_docs |-> self.cls.num_docs,
         ftfy |-> ftfy(self)]

\* customdataset_from_text(): where the archive is written
zip_file_path == "/content/gpt-neox/data/text_file.zip"

\* a listing that keeps the merge table
txt_files_WithMerges(self) ==
    {f \in listdir(base_dir(self)) : endswith(f, ".txt")}

\* customdataset_from_text(): the entries of base_dir that go into the archive
txt_files(self) ==
    {f \in listdir(base_dir(self)) : endswith(f, ".txt") /\ f # "gpt2-merges.txt"}

\* zipf.write(file_path, arcname): the member added to the archive; a
\* directory becomes a directory member, without its content
ZipMember(file_path, arcname) ==
    IF isdir(file_path) THEN arcname \o "/" ELSE arcname

\* customdataset_from_text(): the members of the archive
ArchiveNames(self) ==
    {ZipMember(join(base_dir(self), f), basename(join(base_dir(self), f))) :
        f \in txt_files(self)}

\* prepare(): the archive handed to tokenize in the customdataset branch
PrepareZipPath(self) ==
    join(join(base_dir(self), self.cls.name), self.cls.name \o ".zip")

(***************************************************************************)
(* Inputs and initial states.                                              *)
(***************************************************************************)
DatasetNames ==
    {"pass", "nope", "enron", "pile", "pile_subset", "customdataset",
     "customdataset/run1", "CustomDataset/run1"}

TokenizerTypes ==
    {None, "GPT2BPETokenizer", "HFGPT2Tokenizer", "CharLevelTokenizer", "SPMTokenizer"}

DataDirs == {None, "/srv/corpora"}

VocabFiles == {None, "/srv/vocab.json"}

ForceValues == {None, PyTrue, PyFalse}

WorkerCounts == {NoneInt, 4}

AllCalls ==
    [dataset_name : DatasetNames, tokenizer_type : TokenizerTypes,
     data_dir : DataDirs, vocab_file : VocabFiles, merge_file : {None},
     force_redownload : ForceValues, num_workers : WorkerCounts]

\* The argument tuples of the first prepare_dataset call.  Under the default
\* arguments otherwise: every dataset name with every force_redownload; the
\* names of TokenizerDatasets with every tokenizer_type, with and without
\* vocab_file and num_workers; the names of DataDirDatasets with every
\* data_dir.
TokenizerDatasets == {"pass", "enron", "customdataset"}

DataDirDatasets == {"enron", "customdataset"}

Calls ==
    {a \in AllCalls :
        \/ /\ a.tokenizer_type = None /\ a.vocab_file = None
           /\ a.num_workers = NoneInt /\ a.data_dir = None
        \/ /\ a.force_redownload = None /\ a.data_dir = None
           /\ a.dataset_name \in TokenizerDatasets
           /\ (a.num_workers = NoneInt <=> a.vocab_file = None)
        \/ /\ a.tokenizer_type = None /\ a.vocab_file = None
           /\ a.num_workers = NoneInt /\ a.force_redownload = None
           /\ a.dataset_name \in DataDirDatasets}

\* the call leaves everything but the name and force_redownload to the
\* defaults
DefaultArgs(c) ==
    /\ c.tokenizer_type = None /\ c.vocab_file = None
    /\ c.num_workers = NoneInt /\ c.data_dir = None

\* The argument tuples of a later call: a dataset prepared under the default
\* arguments is prepared again, forced or not.
Repeats(c) ==
    IF DefaultArgs(c)
    THEN {[c EXCEPT !.force_redownload = f] : f \in {PyTrue, PyFalse}}
    ELSE {}

\* Exit statuses of an external process, as os.system reports them.
ExitStatuses == {0, 1}

\* Values of DATA_DIR in the environment.
EnvValues == {None, "/mnt/data"}

\* What may lie on disk before the first call: files and directories, named
\* relative to the default storage root (an absolute name stands for itself).
Layout(fs, ds) == [files |-> fs, dirs |-> ds]

\* nothing, not even the storage root
Fresh == Layout({}, {})

\* the tokenizer assets and the directories of two datasets
Cached == Layout({"gpt2-vocab.json", "gpt2-merges.txt"}, {"enron", "pile"})

\* loose text files next to other entries, and the directory the archive of
\* customdataset_from_text goes to
Texts ==
    Layout({"a.txt", "b.txt", "gpt2-merges.txt", "gpt2-vocab.json", "notes.md",
            "customdataset/old.txt"},
           {"/content/gpt-neox/data"})

\* the same without that directory
TextsOnly ==
    Layout({"a.txt", "b.txt", "gpt2-merges.txt", "gpt2-vocab.json", "notes.md",
            "customdataset/old.txt"},
           {})

\* no text file but the merge table, and an archive of an earlier run
MergesOnly ==
    Layout({"gpt2-merges.txt", "notes.md", "/content/gpt-neox/data/text_file.zip"}, {})

\* The initial states: each layout under the default storage root ./data, and
\* the text files once more under a storage root named by DATA_DIR.
InitChoices ==
    ({None} \X {Fresh, Cached, Texts, MergesOnly})
        \cup ((EnvValues \ {None}) \X {Texts, TextsOnly})

\* the member names of the archives found on disk before the first call
StaleMembers == {"stale.txt"}

Init ==
    /\ \E c \in InitChoices : LET l == c[2] IN
          /\ environ = c[1]
          /\ files = {Abs(join(EnvDataDir, f)) : f \in l.files}
          /\ dirs = UNION ({Chain(Parent(Abs(join(EnvDataDir, f)))) : f \in l.files}
                            \cup {Chain(Abs(join(EnvDataDir, x))) : x \in l.dirs})
    /\ archive = [q \in {f \in files : endswith(f, ".zip")} |-> StaleMembers]
    /\ pc = [p \in Procs |-> "idle"]
    /\ call = [p \in Procs |-> NoCall]
    /\ data_dir = [p \in Procs |-> None]
    /\ d = [p \in Procs |-> NoDesc]
    /\ url_i = [p \in Procs |-> 0]
    /\ jsonl = [p \in Procs |-> None]
    /\ log = [p \in Procs |-> <<>>]
    /\ exc = [p \in Procs |-> NoExc]
    /\ existed = [p \in Procs |-> FALSE]
    /\ hist = <<>>
    /\ ncalls = 0

(***************************************************************************)
(* prepare_dataset, one action per statement with an external effect.      *)
(***************************************************************************)
Over(p) == pc[p] \in {"idle", "done", "raised"}

\* the finished call of process p, as kept in hist
Record(p) ==
    [call |-> call[p], data_dir |-> data_dir[p], d |-> d[p], exc |-> exc[p],
     log |-> log[p], existed |-> existed[p], returned |-> pc[p] = "done"]

\* a wget that removes its output file when it fails
WgetFiles_CleansUp(dest, status, leaves) ==
    IF status = 0 \/ leaves THEN files \cup {Abs(dest)} ELSE files \ {Abs(dest)}

\* wget url -O dest: the files afterwards.  A failing wget may leave the
\* (truncated) output file behind.
WgetFiles(dest, status, leaves) ==
    IF status = 0 \/ leaves THEN files \cup {Abs(dest)} ELSE files

Raise(p, e) ==
    /\ exc' = [exc EXCEPT ![p] = e]
    /\ pc' = [pc EXCEPT ![p] = "raised"]

\* The call: prepare_dataset(a.dataset_name, ...) is entered; data_dir is
\* resolved.
Enter(p, a) ==
    /\ ncalls' = ncalls + 1
    /\ hist' = IF pc[p] = "idle" THEN hist ELSE Append(hist, Record(p))
    /\ call' = [call EXCEPT ![p] = a]
    /\ data_dir' = [data_dir EXCEPT ![p] =
                        IF a.data_dir = None THEN EnvDataDir ELSE a.data_dir]
    /\ d' = [d EXCEPT ![p] = NoDesc]
    /\ url_i' = [url_i EXCEPT ![p] = 0]
    /\ jsonl' = [jsonl EXCEPT ![p] = None]
    /\ log' = [log EXCEPT ![p] = <<>>]
    /\ exc' = [exc EXCEPT ![p] = NoExc]
    /\ existed' = [existed EXCEPT ![p] = FALSE]
    /\ pc' = [pc EXCEPT ![p] = "makedirs"]
    /\ UNCHANGED <<dirs, files, archive, environ>>

\* The caller makes the next call when the previous one is over.
Start(p) ==
    /\ Over(p)
    /\ ncalls < MaxCalls
    /\ \E a \in (IF ncalls = 0 THEN Calls ELSE Repeats(call[p])) : Enter(p, a)

\* os.makedirs(data_dir, exist_ok=True)
MakedirsRoot(p) ==
    /\ pc[p] = "makedirs"
    /\ IF MakedirsFails(data_dir[p])
       THEN Raise(p, FileExists(data_dir[p])) /\ UNCHANGED <<dirs, log>>
       ELSE /\ dirs' = makedirs(data_dir[p])
            /\ log' = [log EXCEPT ![p] =
                          Append(@, Event("makedirs", "", data_dir[p], 0, NoCmd))]
            /\ pc' = [pc EXCEPT ![p] = "vocab"]
            /\ UNCHANGED exc
    /\ UNCHANGED <<files, archive, environ, call, data_dir, d, url_i, jsonl,
                   existed, hist, ncalls>>

\* maybe_download_gpt2_tokenizer_data: one of the two asset fetches.
AssetFetch(p, url, fp, next) ==
    /\ IF /\ call[p].tokenizer_type \in {None, "GPT2BPETokenizer"}
          /\ ~ isfile(fp)
       THEN \E status \in ExitStatuses, leaves \in BOOLEAN :
               /\ status = 0 => leaves
               /\ files' = WgetFiles(fp, status, leaves)
               /\ log' = [log EXCEPT ![p] =
                             Append(@, Event("wget", url, fp, status, NoCmd))]
       ELSE UNCHANGED <<files, log>>
    /\ pc' = [pc EXCEPT ![p] = next]
    /\ UNCHANGED <<dirs, archive, environ, call, data_dir, d, url_i, jsonl, exc,
                   existed, hist, ncalls>>

\* maybe_download_gpt2_tokenizer_data: the vocabulary
WgetVocab(p) ==
    /\ pc[p] = "vocab"
    /\ AssetFetch(p, GPT2_VOCAB_URL, data_dir[p] \o "//gpt2-vocab.json", "merge")

\* maybe_download_gpt2_tokenizer_data: the merge table
WgetMerge(p) ==
    /\ pc[p] = "merge"
    /\ AssetFetch(p, GPT2_MERGE_URL, data_dir[p] \o "/gpt2-merges.txt", "dispatch")

\* the exception of prepare_dataset for a name that is not in the registry
NotRecognized(dataset_name) ==
    [type |-> "NotImplementedError",
     msg |-> "Dataset \"" \o dataset_name
                 \o "\" not recognized - please choose from " \o PyList(RegistryKeys)]

\* the key looked up: dataset_name.split('/')[0].lower()
RegistryKey(dataset_name) == lower(SplitHead(dataset_name))

\* The value of DATA_DOWNLOADERS.get(key, None) when the key is absent.
NoClass == [name |-> "", urls |-> <<>>, urls_none |-> TRUE, num_docs |-> NoneInt]

\* a lookup that falls back to the sentinel entry
Lookup_DefaultPass(key) ==
    IF key \in DOMAIN DATA_DOWNLOADERS THEN DATA_DOWNLOADERS[key] ELSE PassSentinel

\* DATA_DOWNLOADERS.get(key, None)
Lookup(key) ==
    IF key \in DOMAIN DATA_DOWNLOADERS THEN DATA_DOWNLOADERS[key] ELSE NoClass

\* a dispatch without the branch for the sentinel
IsPass_Never(DownloaderClass) == FALSE

\* DownloaderClass == "pass"
IsPass(DownloaderClass) == DownloaderClass = PassSentinel

\* a dispatch that hands the caller's num_workers on
NumWorkers_FromCaller(num_workers) == num_workers

\* num_workers = 1 of prepare_dataset
NumWorkers(num_workers) == 1

\* ds_name of prepare_dataset
DsName(dataset_name) ==
    IF SplitHead(dataset_name) \in {"customdataset"} THEN dataset_name ELSE None

\* The lookup in the registry and what follows it up to the call of
\* d.prepare(): the error for an unknown name, the return for "pass", the
\* construction of the DataDownloader otherwise.
Dispatch(p) ==
    /\ pc[p] = "dispatch"
    /\ LET a == call[p]
           DownloaderClass == Lookup(RegistryKey(a.dataset_name))
       IN  IF DownloaderClass = NoClass
           THEN Raise(p, NotRecognized(a.dataset_name)) /\ UNCHANGED d
           ELSE IF IsPass(DownloaderClass)
           THEN /\ pc' = [pc EXCEPT ![p] = "done"]
                /\ UNCHANGED <<d, exc>>
           ELSE IF InitAsserts(a.tokenizer_type, a.vocab_file)
           THEN Raise(p, [type |-> "AssertionError", msg |-> "No vocab file provided"])
                /\ UNCHANGED d
           ELSE /\ d' = [d EXCEPT ![p] =
                            DataDownloader(DownloaderClass, a.tokenizer_type,
                                a.merge_file, a.vocab_file, data_dir[p],
                                a.force_redownload, NumWorkers(a.num_workers),
                                DsName(a.dataset_name))]
                /\ pc' = [pc EXCEPT ![p] = "prepare"]
                /\ UNCHANGED exc
    /\ UNCHANGED <<dirs, files, archive, environ, call, data_dir, url_i, jsonl, log,
                   existed, hist, ncalls>>

(***************************************************************************)
(* DataDownloader.prepare and the methods it calls.                        *)
(***************************************************************************)
\* prepare() with the tokenize() of its last branch inside the if
PrepareBranch_TokenizeInsideIf(self) ==
    IF self.cls.name = "customdataset" THEN "pack_makedirs"
    ELSE IF self._force_redownload = PyTrue THEN "dl_makedirs"
    ELSE IF ~ exists(self) THEN "dl_makedirs"
    ELSE "done"

\* prepare() without the branch for the custom corpus
PrepareBranch_NoCustom(self) ==
    IF self._force_redownload = PyTrue THEN "dl_makedirs"
    ELSE IF ~ exists(self) THEN "dl_makedirs"
    ELSE "tokenize"

\* prepare() that downloads whether or not the dataset is there
PrepareBranch_NoExistsTest(self) ==
    IF self.cls.name = "customdataset" THEN "pack_makedirs" ELSE "dl_makedirs"

\* prepare() that does not look at force_redownload
PrepareBranch_NoForce(self) ==
    IF self.cls.name = "customdataset" THEN "pack_makedirs"
    ELSE IF ~ exists(self) THEN "dl_makedirs"
    ELSE "tokenize"

\* prepare(): the choice of the branch, with the exists() test of the third
PrepareBranch(self) ==
    IF self.cls.name = "customdataset" THEN "pack_makedirs"
    ELSE IF self._force_redownload = PyTrue THEN "dl_makedirs"
    ELSE IF ~ exists(self) THEN "dl_makedirs"
    ELSE "tokenize"

Prepare(p) ==
    /\ pc[p] = "prepare"
    /\ pc' = [pc EXCEPT ![p] = PrepareBranch(d[p])]
    /\ existed' = [existed EXCEPT ![p] = exists(d[p])]
    /\ UNCHANGED <<dirs, files, archive, environ, call, data_dir, d, url_i, jsonl,
                   log, exc, hist, ncalls>>

\* customdataset_from_text(): os.makedirs of the dataset directory
PackMakedirs(p) ==
    /\ pc[p] = "pack_makedirs"
    /\ LET target == join(base_dir(d[p]), d[p].cls.name)
       IN  IF MakedirsFails(target)
           THEN Raise(p, FileExists(target)) /\ UNCHANGED <<dirs, log>>
           ELSE /\ dirs' = makedirs(target)
                /\ log' = [log EXCEPT ![p] =
                              Append(@, Event("makedirs", "", target, 0, NoCmd))]
                /\ pc' = [pc EXCEPT ![p] = "pack_zip"]
                /\ UNCHANGED exc
    /\ UNCHANGED <<files, archive, environ, call, data_dir, d, url_i, jsonl,
                   existed, hist, ncalls>>

\* customdataset_from_text() without its assertion
AssertTxtFiles_Removed(tf) == TRUE

\* customdataset_from_text(): assert txt_files
AssertTxtFiles(tf) == tf # {}

\* customdataset_from_text(): the listing, the assertion and the archive;
\* then prepare() names the archive it hands to tokenize.
PackZip(p) ==
    /\ pc[p] = "pack_zip"
    /\ IF ~ AssertTxtFiles(txt_files(d[p]))
       THEN /\ Raise(p, [type |-> "AssertionError",
                         msg |-> "No textfile found at " \o base_dir(d[p]) \o "."])
            /\ UNCHANGED <<files, archive, jsonl, log>>
       ELSE IF ~ isdir(Parent(Abs(zip_file_path)))
       THEN /\ Raise(p, [type |-> "FileNotFoundError", msg |-> zip_file_path])
            /\ UNCHANGED <<files, archive, jsonl, log>>
       ELSE /\ files' = files \cup {Abs(zip_file_path)}
            /\ archive' = [q \in DOMAIN archive \cup {Abs(zip_file_path)} |->
                              IF q = Abs(zip_file_path) THEN ArchiveNames(d[p])
                              ELSE archive[q]]
            /\ log' = [log EXCEPT ![p] =
                          Append(@, Event("zip", "", zip_file_path, 0, NoCmd))]
            /\ jsonl' = [jsonl EXCEPT ![p] = PrepareZipPath(d[p])]
            /\ pc' = [pc EXCEPT ![p] = "tokenize"]
            /\ UNCHANGED exc
    /\ UNCHANGED <<dirs, environ, call, data_dir, d, url_i, existed, hist, ncalls>>

\* download(): os.makedirs of the dataset directory, entry of the loop
DownloadMakedirs(p) ==
    /\ pc[p] = "dl_makedirs"
    /\ LET target == join(base_dir(d[p]), d[p].cls.name)
       IN  IF MakedirsFails(target)
           THEN Raise(p, FileExists(target)) /\ UNCHANGED <<dirs, log, url_i>>
           ELSE /\ dirs' = makedirs(target)
                /\ log' = [log EXCEPT ![p] =
                              Append(@, Event("makedirs", "", target, 0, NoCmd))]
                /\ IF d[p].cls.urls_none
                   THEN Raise(p, [type |-> "TypeError",
                                  msg |-> "'NoneType' object is not iterable"])
                        /\ UNCHANGED url_i
                   ELSE /\ url_i' = [url_i EXCEPT ![p] = 1]
                        /\ pc' = [pc EXCEPT ![p] =
                                     IF Len(d[p].cls.urls) = 0 THEN "tokenize"
                                     ELSE "wget"]
                        /\ UNCHANGED exc
    /\ UNCHANGED <<files, archive, environ, call, data_dir, d, jsonl, existed, hist, ncalls>>

\* a download() that does not look at the exit status
WgetFailed_Ignored(status) == FALSE

\* download(): os.system(os_cmd) != 0
WgetFailed(status) == status # 0

\* download(): one round of the loop, wget of the url at url_i
Wget(p) ==
    /\ pc[p] = "wget"
    /\ LET url == d[p].cls.urls[url_i[p]]
           dest == DownloadTarget(d[p], url)
       IN  \E status \in ExitStatuses, leaves \in BOOLEAN :
              /\ status = 0 => leaves
              /\ files' = WgetFiles(dest, status, leaves)
              /\ log' = [log EXCEPT ![p] =
                            Append(@, Event("wget", url, dest, status, NoCmd))]
              /\ IF WgetFailed(status)
                 THEN Raise(p, DownloadError(url)) /\ UNCHANGED url_i
                 ELSE /\ IF url_i[p] = Len(d[p].cls.urls)
                         THEN pc' = [pc EXCEPT ![p] = "tokenize"] /\ UNCHANGED url_i
                         ELSE /\ url_i' = [url_i EXCEPT ![p] = @ + 1]
                              /\ UNCHANGED pc
                      /\ UNCHANGED exc
    /\ UNCHANGED <<dirs, archive, environ, call, data_dir, d, jsonl, existed, hist, ncalls>>

\* a tokenize() that raises when the command fails
TokenizeRaises_OnFailure(status) == status # 0

\* tokenize(): os.system(cmd), the exit status is not looked at
TokenizeRaises(status) == FALSE

\* tokenize(): the preprocessing command is run
Tokenize(p) ==
    /\ pc[p] = "tokenize"
    /\ IF jsonl[p] = None /\ d[p].cls.urls_none
       THEN Raise(p, [type |-> "TypeError", msg |-> "'NoneType' object is not iterable"])
            /\ UNCHANGED log
       ELSE \E status \in ExitStatuses :
               /\ log' = [log EXCEPT ![p] =
                             Append(@, Event("preprocess", "", "", status,
                                             TokenizeCmd(d[p], jsonl[p])))]
               /\ IF TokenizeRaises(status)
                  THEN Raise(p, [type |-> "Exception", msg |-> "preprocess_data.py failed"])
                  ELSE pc' = [pc EXCEPT ![p] = "done"] /\ UNCHANGED exc
    /\ UNCHANGED <<dirs, files, archive, environ, call, data_dir, d, url_i, jsonl,
                   existed, hist, ncalls>>

\* Calls are made one after the other by a single process.
Next ==
    \/ Start(1)
    \/ MakedirsRoot(1)
    \/ WgetVocab(1)
    \/ WgetMerge(1)
    \/ Dispatch(1)
    \/ Prepare(1)
    \/ PackMakedirs(1)
    \/ PackZip(1)
    \/ DownloadMakedirs(1)
    \/ Wget(1)
    \/ Tokenize(1)

Spec == Init /\ [][Next]_vars

(***************************************************************************)
(* Two callers at once: each of the two processes makes one                *)
(* prepare_dataset call, for the same dataset of the registry, not forced, *)
(* on a storage root that holds nothing.  The steps are those above; they  *)
(* interleave in any order.  The existence test of prepare() and the       *)
(* os.makedirs of download() are separate steps; the isfile test of a      *)
(* tokenizer asset and its wget are one step.                              *)
(***************************************************************************)
ConcDatasets == {"enron", "pile"}

ConcCalls ==
    {a \in Calls :
        /\ a.dataset_name \in ConcDatasets
        /\ a.force_redownload \in {None, PyFalse}
        /\ a.tokenizer_type = None /\ a.vocab_file = None
        /\ a.num_workers = NoneInt /\ a.data_dir = None}

ConcInit ==
    /\ Init
    /\ environ = None
    /\ dirs = {}
    /\ files = {}

\* a process enters its call; the other one prepares the same dataset
ConcStart(p) ==
    /\ pc[p] = "idle"
    /\ \E a \in ConcCalls :
          /\ \A q \in Procs \ {p} :
                call[q] = NoCall \/ call[q].dataset_name = a.dataset_name
          /\ Enter(p, a)

ConcNext ==
    \E p \in Procs :
        \/ ConcStart(p)
        \/ MakedirsRoot(p)
        \/ WgetVocab(p)
        \/ WgetMerge(p)
        \/ Dispatch(p)
        \/ Prepare(p)
        \/ DownloadMakedirs(p)
        \/ Wget(p)
        \/ Tokenize(p)

ConcSpec == ConcInit /\ [][ConcNext]_vars

(***************************************************************************)
(* Vocabulary of the properties.                                           *)
(***************************************************************************)
RECURSIVE ContainsFrom(_, _, _)
ContainsFrom(s, sub, i) ==
    IF i + Len(sub) - 1 > Len(s) THEN FALSE
    ELSE IF SubSeq(s, i, i + Len(sub) - 1) = sub THEN TRUE
    ELSE ContainsFrom(s, sub, i + 1)

\* sub occurs in s
Contains(s, sub) == ContainsFrom(s, sub, 1)

\* a fetch of a dataset source, as opposed to a fetch of a tokenizer asset
IsDatasetFetch(e) == e.op = "wget" /\ e.url \notin {GPT2_VOCAB_URL, GPT2_MERGE_URL}

IsAssetFetch(e) == e.op = "wget" /\ e.url \in {GPT2_VOCAB_URL, GPT2_MERGE_URL}

IsTransform(e) == e.op = "preprocess"

\* the fetches of dataset sources in a log, in order
Fetches(l) == SelectSeq(l, IsDatasetFetch)

\* the invocations of the transform collaborator in a log
Transforms(l) == SelectSeq(l, IsTransform)

\* prepare() of process p has been entered and has chosen its branch
InPrepare(p) ==
    /\ d[p] # NoDesc
    /\ pc[p] \in {"pack_makedirs", "pack_zip", "dl_makedirs", "wget", "tokenize",
                  "done", "raised"}

\* the descriptor of process p is not the custom-corpus one
Standard(p) == d[p].cls.name # "customdataset"

\* storageRoot/name/basename(source), as the file system sees it
SourceFile(root, name, url) == Abs(root \o "/" \o name \o "/" \o basename(url))

\* storageRoot/name, as the file system sees it
DatasetDir(root, name) == Abs(root \o "/" \o name)

\* the transform input derived from all the locators of a dataset
FullInput(root, name, urls) ==
    JoinComma([i \in DOMAIN urls |-> root \o "/" \o name \o "/" \o basename(urls[i])])

(***************************************************************************)
(* C1.  Cached branch: for a non-custom descriptor whose directory          *)
(* storageRoot/name exists when prepare is entered and whose                *)
(* force_redownload is False or unset, prepare goes straight to the        *)
(* transform: it issues no fetch of a dataset source, it cannot end        *)
(* without having invoked the transform, and it invokes it once.           *)
(***************************************************************************)
C1_CachedBranch ==
    ( /\ InPrepare(1)
      /\ Standard(1)
      /\ existed[1]
      /\ call[1].force_redownload \in {None, PyFalse} )
    => /\ pc[1] \in {"tokenize", "done"}
       /\ Fetches(log[1]) = <<>>
       /\ pc[1] = "tokenize" => Transforms(log[1]) = <<>>
       /\ pc[1] = "done" => Len(Transforms(log[1])) = 1

C1_Witness ==
    /\ pc[1] = "done"
    /\ d[1].cls.name = "pile"
    /\ existed[1]
    /\ call[1].force_redownload = None
    /\ Fetches(log[1]) = <<>>
    /\ Len(Transforms(log[1])) = 1

(***************************************************************************)
(* C2.  Forced refresh: for a non-custom descriptor whose directory exists *)
(* when prepare is entered and whose force_redownload is True, the fetches *)
(* of the call are the declared sources in declaration order, each at most *)
(* once and each targeting storageRoot/name/basename(source); a fetch is   *)
(* issued only after all earlier ones exited zero; when all sources were   *)
(* fetched with exit status zero the call goes on to the transform, which  *)
(* is invoked only then and after the last fetch.                          *)
(***************************************************************************)
C2_ForcedRefresh ==
    ( /\ InPrepare(1)
      /\ Standard(1)
      /\ existed[1]
      /\ call[1].force_redownload = PyTrue )
    => LET fs == Fetches(log[1])
           urls == d[1].cls.urls
           complete == /\ Len(fs) = Len(urls)
                       /\ \A i \in DOMAIN fs : fs[i].status = 0
       IN  /\ Len(fs) <= Len(urls)
           /\ \A i \in DOMAIN fs :
                 /\ fs[i].url = urls[i]
                 /\ Abs(fs[i].path) = SourceFile(data_dir[1], d[1].cls.name, urls[i])
                 /\ i < Len(fs) => fs[i].status = 0
           /\ complete <=> pc[1] \in {"tokenize", "done"}
           /\ pc[1] # "done" => Transforms(log[1]) = <<>>
           /\ pc[1] = "done" =>
                 /\ Len(Transforms(log[1])) = 1
                 /\ IsTransform(log[1][Len(log[1])])

C2_Witness ==
    /\ pc[1] = "done"
    /\ d[1].cls.name = "pile"
    /\ existed[1]
    /\ call[1].force_redownload = PyTrue
    /\ Len(Fetches(log[1])) = Len(Pile.urls)
    /\ Len(Pile.urls) > 1
    /\ IsTransform(log[1][Len(log[1])])

\* the call of process p names the sentinel entry of the registry
PassCall(c) == RegistryKey(c.dataset_name) = "pass"

\* the key of the call is not in the registry
UnknownCall(c) ==
    RegistryKey(c.dataset_name) \notin {RegistryKeys[i] : i \in DOMAIN RegistryKeys}

\* the two shared tokenizer assets under a storage root
AssetFiles(root) == {Abs(root \o "/gpt2-vocab.json"), Abs(root \o "/gpt2-merges.txt")}

\* What every prepare_dataset call may do before it looks the name up, and
\* nothing more: the storage root is created, absent tokenizer assets are
\* fetched when the tokenizer type is byte-pair or unset.
OnlyEntryEffects ==
    /\ dirs' \ dirs \subseteq Chain(Abs(data_dir'[1]))
    /\ files' \ files \subseteq AssetFiles(data_dir'[1])
    /\ archive' = archive
    /\ d'[1] = NoDesc
    /\ \A i \in DOMAIN log'[1] :
          LET e == log'[1][i]
          IN  \/ e.op = "makedirs" /\ Abs(e.path) = Abs(data_dir'[1])
              \/ /\ IsAssetFetch(e)
                 /\ Abs(e.path) \in AssetFiles(data_dir'[1])
                 /\ call'[1].tokenizer_type \in {None, "GPT2BPETokenizer"}

\* No effect at all: nothing created, no process run.
NoEffects ==
    /\ dirs' = dirs
    /\ files' = files
    /\ archive' = archive
    /\ \A i \in DOMAIN log'[1] : log'[1][i].op \notin {"wget", "preprocess", "zip"}

(***************************************************************************)
(* C3 as stated.  A call with the sentinel key "pass" is a no-op: no step  *)
(* of it creates a directory or a file or runs an external process.        *)
(***************************************************************************)
C3_PassIsNoOp == [][PassCall(call'[1]) => NoEffects]_vars

(***************************************************************************)
(* C3 as amended.  A call with the sentinel key "pass" constructs no      *)
(* descriptor, fetches no dataset source, writes no archive, invokes no    *)
(* transform and returns normally; its only effects are those of the entry *)
(* of prepare_dataset: the storage root is created and, when the tokenizer *)
(* type is byte-pair or unset, absent tokenizer assets are fetched.        *)
(***************************************************************************)
C3_PassOnlyEntryEffects ==
    [][PassCall(call'[1]) => (OnlyEntryEffects /\ pc'[1] # "raised")]_vars

C3_Witness ==
    /\ PassCall(call[1])
    /\ pc[1] = "done"
    /\ \E i \in DOMAIN log[1] : IsAssetFetch(log[1][i])
    /\ Abs(data_dir[1]) \in dirs

(***************************************************************************)
(* C4 as stated.  A call whose key is not in the registry fails with the   *)
(* unknown-dataset error (NotImplementedError) and up to that failure      *)
(* attempts no directory creation and no fetch; the file system is         *)
(* unchanged.                                                              *)
(***************************************************************************)
C4_UnknownTouchesNothing ==
    [][UnknownCall(call'[1]) =>
          /\ NoEffects
          /\ log'[1] = <<>>
          /\ pc'[1] # "done"
          /\ pc'[1] = "raised" => exc'[1].type = "NotImplementedError"]_vars

(***************************************************************************)
(* C4 as amended.  A call whose key is not in the registry fails with the  *)
(* unknown-dataset error, whose message names the dataset and lists the    *)
(* registry keys; it never returns normally.  Up to the failure it has     *)
(* only the effects of the entry of prepare_dataset (storage root created, *)
(* absent tokenizer assets fetched for the byte-pair or unset tokenizer    *)
(* type): no descriptor, no dataset directory, no dataset fetch, no        *)
(* transform.                                                              *)
(***************************************************************************)
C4_UnknownOnlyEntryEffects ==
    [][UnknownCall(call'[1]) =>
          /\ OnlyEntryEffects
          /\ pc'[1] # "done"
          /\ pc'[1] = "raised" =>
                /\ exc'[1].type = "NotImplementedError"
                /\ startswith(exc'[1].msg, "Dataset \"" \o call'[1].dataset_name \o "\"")
                /\ endswith(exc'[1].msg, PyList(RegistryKeys))]_vars

C4_Witness ==
    /\ UnknownCall(call[1])
    /\ pc[1] = "raised"
    /\ exc[1].type = "NotImplementedError"
    /\ \E i \in DOMAIN log[1] : IsAssetFetch(log[1][i])

(***************************************************************************)
(* C5.  Acquisition stops at the first failing source: a fetch of a        *)
(* dataset source that exits non-zero is the last external effect of the   *)
(* call; the call has then raised an error whose message names that        *)
(* source, which nothing catches, and the transform has not been invoked.  *)
(***************************************************************************)
C5_StopAtFirstFailure ==
    \A i \in DOMAIN log[1] :
        (IsDatasetFetch(log[1][i]) /\ log[1][i].status # 0)
        => /\ i = Len(log[1])
           /\ pc[1] = "raised"
           /\ exc[1].type = "Exception"
           /\ Contains(exc[1].msg, log[1][i].url)
           /\ Transforms(log[1]) = <<>>

C5_Witness ==
    /\ pc[1] = "raised"
    /\ d[1].cls.name = "pile"
    /\ Len(Pile.urls) > 1
    /\ Len(Fetches(log[1])) = 1
    /\ Fetches(log[1])[1].status # 0

(***************************************************************************)
(* C6.  In the custom-corpus branch the packager writes its archive at     *)
(* storageRoot/name/name.zip, and the input handed to the transform is the *)
(* path of the archive the packager wrote in the same call.                *)
(***************************************************************************)
C6_ArchiveIsTransformInput ==
    \A i \in DOMAIN log[1] :
        log[1][i].op = "zip"
        => /\ Abs(log[1][i].path)
                 = Abs(data_dir[1] \o "/" \o d[1].cls.name \o "/" \o d[1].cls.name \o ".zip")
           /\ \A j \in DOMAIN log[1] :
                 IsTransform(log[1][j])
                 => Abs(log[1][j].cmd.input) = Abs(log[1][i].path)

(***************************************************************************)
(* C7.  After a failed acquisition the dataset directory and the files     *)
(* that were fetched remain on disk, and a later prepare of the same       *)
(* dataset with force_redownload False finds the dataset present: it       *)
(* issues no fetch and hands the transform the input derived from all the  *)
(* locators, the never fetched ones included.                              *)
(***************************************************************************)
C7_PartialAcquisitionIsPresent ==
    \A k \in DOMAIN hist :
        LET h == hist[k]
            name == h.d.cls.name
        IN  ( /\ h.exc.type = "Exception"
              /\ Fetches(h.log) # <<>>
              /\ h.call.dataset_name = call[1].dataset_name
              /\ h.data_dir = data_dir[1] )
            => /\ DatasetDir(h.data_dir, name) \in dirs
               /\ \A i \in DOMAIN h.log :
                     (IsDatasetFetch(h.log[i]) /\ h.log[i].status = 0)
                     => Abs(h.log[i].path) \in files
               /\ (InPrepare(1) /\ call[1].force_redownload = PyFalse)
                  => /\ existed[1]
                     /\ pc[1] \in {"tokenize", "done"}
                     /\ Fetches(log[1]) = <<>>
                     /\ pc[1] = "done" =>
                           /\ Len(Transforms(log[1])) = 1
                           /\ Transforms(log[1])[1].cmd.input
                                 = FullInput(data_dir[1], name, h.d.cls.urls)

\* The first call fetched one of the two sources and failed on the other,
\* which is not on disk; the second call, not forced, has run the transform.
C7_Witness ==
    /\ Len(hist) = 1
    /\ hist[1].exc.type = "Exception"
    /\ hist[1].d.cls.name = "pile"
    /\ Len(Fetches(hist[1].log)) = 2
    /\ Fetches(hist[1].log)[1].status = 0
    /\ Abs(Fetches(hist[1].log)[2].path) \notin files
    /\ call[1].force_redownload = PyFalse
    /\ pc[1] = "done"
    /\ Len(Transforms(log[1])) = 1
    /\ Contains(Transforms(log[1])[1].cmd.input, Fetches(hist[1].log)[2].path)

\* the regular files directly under a storage root whose name ends in .txt
\* and is not gpt2-merges.txt
QualifyingTexts(root) ==
    {basename(f) : f \in {g \in files : /\ Parent(g) = Abs(root)
                                         /\ endswith(g, ".txt")
                                         /\ basename(g) # "gpt2-merges.txt"}}

\* the packager of process p has written its archive in the running call
Packaged(p) == \E i \in DOMAIN log[p] : log[p][i].op = "zip"

(***************************************************************************)
(* C8.  The archive the packager produces holds exactly the files directly *)
(* under storageRoot whose name ends in .txt and is not gpt2-merges.txt,   *)
(* each as a member at the root of the archive under its basename.         *)
(***************************************************************************)
C8_ArchiveMembers ==
    Packaged(1) =>
        LET members == archive[Abs(zip_file_path)]
        IN  /\ members = QualifyingTexts(data_dir[1])
            /\ \A m \in members : FindSlash(m, 1) = 0

C8_Witness ==
    /\ Packaged(1)
    /\ archive[Abs(zip_file_path)] = {"a.txt", "b.txt"}
    /\ Abs(data_dir[1] \o "/gpt2-merges.txt") \in files
    /\ Abs(data_dir[1] \o "/notes.md") \in files
    /\ Abs(data_dir[1] \o "/customdataset/old.txt") \in files

(***************************************************************************)
(* C9.  When storageRoot holds no .txt file other than gpt2-merges.txt,    *)
(* the packager fails on its assertion: no archive is written or           *)
(* overwritten, the call ends in failure and the transform is not invoked. *)
(***************************************************************************)
C9_NoTextFails ==
    [][(pc[1] = "pack_zip" /\ QualifyingTexts(data_dir[1]) = {})
          => /\ pc'[1] = "raised"
             /\ exc'[1].type = "AssertionError"
             /\ archive' = archive
             /\ files' = files
             /\ Transforms(log'[1]) = <<>>]_vars

\* an archive of an earlier run is still there, untouched
C9_Witness ==
    /\ pc[1] = "raised"
    /\ exc[1].type = "AssertionError"
    /\ d[1].cls.name = "customdataset"
    /\ Abs(data_dir[1] \o "/gpt2-merges.txt") \in files
    /\ Abs(zip_file_path) \in DOMAIN archive
    /\ archive[Abs(zip_file_path)] = StaleMembers

(***************************************************************************)
(* C10.  A non-zero exit of the transform is not turned into an error:     *)
(* once the transform has been invoked the call has returned normally,     *)
(* whatever the exit status, in every branch.                              *)
(***************************************************************************)
C10_TransformStatusDropped ==
    \A i \in DOMAIN log[1] :
        IsTransform(log[1][i])
        => /\ i = Len(log[1])
           /\ pc[1] = "done"
           /\ exc[1] = NoExc

C10_Witness ==
    /\ pc[1] = "done"
    /\ d[1].cls.name = "customdataset"
    /\ IsTransform(log[1][Len(log[1])])
    /\ log[1][Len(log[1])].status # 0

(***************************************************************************)
(* C11.  End to end, prepare_dataset("enron") when storageRoot/enron is    *)
(* not there (as on a fresh storage root): the call creates                *)
(* storageRoot/enron, then issues one fetch, of the single declared        *)
(* source, to storageRoot/enron/basename(source); the transform is invoked *)
(* only after that fetch exited zero, exactly once, as the last effect of  *)
(* the call, with output prefix storageRoot/enron/enron and the fetched    *)
(* file as its only input.                                                 *)
(***************************************************************************)
C11_EnronEndToEnd ==
    ( /\ call[1].dataset_name = "enron"
      /\ InPrepare(1)
      /\ ~ existed[1] )
    => LET root == data_dir[1]
           src == Enron.urls[1]
           target == root \o "/enron/" \o basename(src)
           fs == Fetches(log[1])
           ts == Transforms(log[1])
       IN  /\ Len(Enron.urls) = 1
           /\ pc[1] # "dl_makedirs" =>
                 /\ DatasetDir(root, "enron") \in dirs
                 /\ \E i \in DOMAIN log[1] :
                       /\ log[1][i].op = "makedirs"
                       /\ Abs(log[1][i].path) = DatasetDir(root, "enron")
                       /\ \A j \in DOMAIN log[1] :
                             (IsDatasetFetch(log[1][j]) \/ IsTransform(log[1][j]))
                             => i < j
           /\ pc[1] \in {"dl_makedirs", "wget"} => fs = <<>> /\ ts = <<>>
           /\ pc[1] \in {"tokenize", "done", "raised"} =>
                 /\ Len(fs) = 1
                 /\ fs[1].url = src
                 /\ fs[1].path = target
                 /\ fs[1].status # 0 <=> pc[1] = "raised"
                 /\ fs[1].status = 0 => Abs(target) \in files
           /\ pc[1] # "done" => ts = <<>>
           /\ pc[1] = "done" =>
                 /\ Len(ts) = 1
                 /\ IsTransform(log[1][Len(log[1])])
                 /\ IsDatasetFetch(log[1][Len(log[1]) - 1])
                 /\ ts[1].cmd.output_prefix = root \o "/enron/enron"
                 /\ ts[1].cmd.input = target

\* the storage root held nothing before the call: all that is there now is
\* what the call made
C11_Witness ==
    /\ call[1].dataset_name = "enron"
    /\ pc[1] = "done"
    /\ hist = <<>>
    /\ files = AssetFiles(data_dir[1])
                  \cup {SourceFile(data_dir[1], "enron", Enron.urls[1])}
    /\ dirs = Chain(DatasetDir(data_dir[1], "enron"))
    /\ Len(Transforms(log[1])) = 1
    /\ Transforms(log[1])[1].cmd.output_prefix = "./data/enron/enron"
    /\ Transforms(log[1])[1].cmd.input = "./data/enron/enron_emails.jsonl.zst"

\* the key of the call is a key of the registry other than the sentinel
RegisteredCall(c) ==
    /\ ~ UnknownCall(c)
    /\ ~ PassCall(c)

(***************************************************************************)
(* C12.  Every non-sentinel registry key equals the name of the descriptor *)
(* it maps to: a call prepare_dataset(k) for a registered key k works with *)
(* a descriptor named k, creates the directory storageRoot/k, fetches into *)
(* it and gives the transform the output prefix storageRoot/k/k.           *)
(***************************************************************************)
C12_KeyIsDescriptorName ==
    (RegisteredCall(call[1]) /\ InPrepare(1))
    => LET k == RegistryKey(call[1].dataset_name)
       IN  /\ d[1].cls.name = k
           /\ DATA_DOWNLOADERS[k].name = k
           /\ \A i \in DOMAIN log[1] :
                 LET e == log[1][i]
                 IN  /\ IsDatasetFetch(e) =>
                           Parent(Abs(e.path)) = DatasetDir(data_dir[1], k)
                     /\ IsTransform(e) =>
                           e.cmd.output_prefix = data_dir[1] \o "/" \o k \o "/" \o k

\* the key of the call resolves to the custom-corpus descriptor
CustomCall(c) == RegistryKey(c.dataset_name) = "customdataset"

(***************************************************************************)
(* C13.  Dispatch looks up the lowercased portion of dataset_name before   *)
(* the first "/", and every descriptor constructed for a dataset_name that *)
(* resolves to the custom-corpus entry, in whatever letter case the key    *)
(* portion is written, keeps the full original dataset_name as its logical *)
(* sub-name.                                                               *)
(***************************************************************************)
C13_SubNameIsDatasetName ==
    InPrepare(1)
    => /\ d[1].cls = DATA_DOWNLOADERS[lower(SplitHead(call[1].dataset_name))]
       /\ CustomCall(call[1]) => d[1].dataset_name = call[1].dataset_name

\* the tokenizer kinds for which __init__ has a vocabulary default
KnownKinds == {None, "GPT2BPETokenizer", "HFGPT2Tokenizer", "CharLevelTokenizer"}

(***************************************************************************)
(* C14.  Vocabulary default at descriptor construction.  A vocabulary path *)
(* given by the caller is kept unchanged.  Without one: kind byte-pair or  *)
(* unset gives storageRoot/gpt2-vocab.json, pretrained-wrapped gives       *)
(* "gpt2", character-level gives no vocabulary and the construction        *)
(* succeeds; any other kind makes the construction fail on its assertion,  *)
(* and the call then ends without a descriptor, without a fetch of a       *)
(* dataset source and without a transform.  The construction fails in no   *)
(* other case.                                                             *)
(***************************************************************************)
C14_VocabularyDefault ==
    LET a == call[1]
        kind == a.tokenizer_type
        nodefault == a.vocab_file = None /\ kind \notin KnownKinds
    IN  /\ d[1] # NoDesc =>
              /\ ~ nodefault
              /\ a.vocab_file # None => d[1]._vocab_file = a.vocab_file
              /\ a.vocab_file = None =>
                    /\ kind \in {None, "GPT2BPETokenizer"} =>
                          d[1]._vocab_file = data_dir[1] \o "/gpt2-vocab.json"
                    /\ kind = "HFGPT2Tokenizer" => d[1]._vocab_file = "gpt2"
                    /\ kind = "CharLevelTokenizer" => d[1]._vocab_file = None
        /\ (nodefault /\ RegisteredCall(a)) =>
              /\ pc[1] \in {"idle", "makedirs", "vocab", "merge", "dispatch", "raised"}
              /\ pc[1] = "raised" => exc[1].type = "AssertionError"
              /\ Fetches(log[1]) = <<>>
              /\ Transforms(log[1]) = <<>>
        /\ (pc[1] \in {"done", "raised"} /\ ~ nodefault /\ RegisteredCall(a)) =>
              d[1] # NoDesc

\* the construction failed for a kind without a default
C14_Witness ==
    /\ call[1].dataset_name = "enron"
    /\ call[1].tokenizer_type = "SPMTokenizer"
    /\ call[1].vocab_file = None
    /\ pc[1] = "raised"
    /\ exc[1] = [type |-> "AssertionError", msg |-> "No vocab file provided"]
    /\ d[1] = NoDesc

\* the construction succeeded without a vocabulary for the character-level
\* kind, and the call went through
C14_WitnessCharLevel ==
    /\ call[1].tokenizer_type = "CharLevelTokenizer"
    /\ call[1].vocab_file = None
    /\ pc[1] = "done"
    /\ d[1]._vocab_file = None
    /\ Len(Transforms(log[1])) = 1

\* the step taken appends a fetch of url to the log of process 1
FetchIssued(url) ==
    /\ Len(log'[1]) = Len(log[1]) + 1
    /\ log'[1][Len(log'[1])].op = "wget"
    /\ log'[1][Len(log'[1])].url = url

\* the tokenizer kind of the call is byte-pair or unset
BytePairCall(c) == c.tokenizer_type \in {None, "GPT2BPETokenizer"}

(***************************************************************************)
(* C15.  Shared tokenizer assets.  At the entry of prepare_dataset each of *)
(* the two assets is fetched if and only if the tokenizer kind is          *)
(* byte-pair or unset and its file is absent under storageRoot; no other   *)
(* step fetches an asset, so an asset that is present is never fetched     *)
(* again.  When a descriptor is constructed in a call with kind byte-pair  *)
(* or unset, both assets exist.                                            *)
(***************************************************************************)
C15_SharedAssets ==
    [][LET root == data_dir[1]
       IN  /\ pc[1] = "vocab" =>
                 (FetchIssued(GPT2_VOCAB_URL)
                     <=> (BytePairCall(call[1])
                             /\ Abs(root \o "/gpt2-vocab.json") \notin files))
           /\ pc[1] = "merge" =>
                 (FetchIssued(GPT2_MERGE_URL)
                     <=> (BytePairCall(call[1])
                             /\ Abs(root \o "/gpt2-merges.txt") \notin files))
           /\ pc[1] # "vocab" => ~ FetchIssued(GPT2_VOCAB_URL)
           /\ pc[1] # "merge" => ~ FetchIssued(GPT2_MERGE_URL)
           /\ (d[1] = NoDesc /\ d'[1] # NoDesc /\ BytePairCall(call[1])) =>
                 AssetFiles(root) \subseteq files']_vars

\* the same without its last part: which steps fetch an asset, and when
C15_FetchedIffAbsent ==
    [][LET root == data_dir[1]
       IN  /\ pc[1] = "vocab" =>
                 (FetchIssued(GPT2_VOCAB_URL)
                     <=> (BytePairCall(call[1])
                             /\ Abs(root \o "/gpt2-vocab.json") \notin files))
           /\ pc[1] = "merge" =>
                 (FetchIssued(GPT2_MERGE_URL)
                     <=> (BytePairCall(call[1])
                             /\ Abs(root \o "/gpt2-merges.txt") \notin files))
           /\ pc[1] # "vocab" => ~ FetchIssued(GPT2_VOCAB_URL)
           /\ pc[1] # "merge" => ~ FetchIssued(GPT2_MERGE_URL)]_vars

(***************************************************************************)
(* C16.  Whatever num_workers the caller gives, unset included, the worker *)
(* count in every transform command of a prepare_dataset call is 1.        *)
(***************************************************************************)
C16_WorkerCountIsOne ==
    \A i \in DOMAIN log[1] :
        IsTransform(log[1][i]) => log[1][i].cmd.workers = 1

\* a call with num_workers given has run the transform
C16_Witness ==
    /\ pc[1] = "done"
    /\ call[1].num_workers = 4
    /\ Len(Transforms(log[1])) = 1
    /\ Transforms(log[1])[1].cmd.workers = 1

PhaseOf(pcv, dv) ==
    IF dv = NoDesc THEN "Out"
    ELSE CASE pcv = "prepare" -> "NotStarted"
           [] pcv \in {"pack_makedirs", "pack_zip"} -> "Packaging"
           [] pcv \in {"dl_makedirs", "wget"} -> "Acquiring"
           [] pcv = "tokenize" -> "Transforming"
           [] pcv = "done" -> "Done"
           [] pcv = "raised" -> "Failed"
           [] OTHER -> "Out"

\* the phase changes a prepare call may make
PhaseOrder(from, to) ==
    CASE from = "Out" -> to \in {"Out", "NotStarted"}
      [] from = "NotStarted" -> to \in {"Packaging", "Acquiring", "Transforming"}
      [] from = "Packaging" -> to \in {"Packaging", "Transforming", "Failed"}
      [] from = "Acquiring" -> to \in {"Acquiring", "Transforming", "Failed"}
      [] from = "Transforming" -> to \in {"Done", "Failed"}
      [] from = "Done" -> to = "Out"
      [] from = "Failed" -> to = "Out"

\* what the log of a prepare call in phase ph may hold
PhaseLog(ph, l) ==
    LET packs == SelectSeq(l, LAMBDA e : e.op = "zip")
        ts == Transforms(l)
        fs == Fetches(l)
    IN  /\ packs = <<>> \/ fs = <<>>
        /\ Len(packs) <= 1
        /\ ph \in {"NotStarted", "Packaging", "Acquiring", "Transforming", "Failed"} =>
              ts = <<>>
        /\ ph = "Done" =>
              /\ Len(ts) = 1
              /\ IsTransform(l[Len(l)])
        /\ ph = "Transforming" => \A i \in DOMAIN fs : fs[i].status = 0

(***************************************************************************)
(* C18.  Phase ordering of one prepare call: the phases follow one another *)
(* only as NotStarted, then Packaging or Acquiring or neither, then        *)
(* Transforming, then Done; a call never both packages and acquires; a     *)
(* call that is Done has invoked the transform exactly once, as the last   *)
(* effect, after its packaging or its last fetch; a failure ends the call, *)
(* and a call that failed in Packaging or Acquiring has not invoked and    *)
(* will not invoke the transform.                                          *)
(***************************************************************************)
C18_PhaseOrdering ==
    [][/\ PhaseOrder(PhaseOf(pc[1], d[1]), PhaseOf(pc'[1], d'[1]))
       /\ PhaseLog(PhaseOf(pc'[1], d'[1]), log'[1])
       /\ PhaseOf(pc[1], d[1]) \in {"Packaging", "Acquiring", "Transforming"} =>
             /\ d'[1] = d[1]
             /\ \A i \in DOMAIN log[1] : log'[1][i] = log[1][i]]_vars

\* a first call failed while acquiring and never transformed; the next one
\* acquired both sources and is done
C18_Witness ==
    /\ Len(hist) = 1
    /\ hist[1].exc.type = "Exception"
    /\ Transforms(hist[1].log) = <<>>
    /\ PhaseOf(pc[1], d[1]) = "Done"
    /\ d[1].cls.name = "pile"
    /\ Len(Pile.urls) > 1
    /\ Len(Fetches(log[1])) = Len(Pile.urls)
    /\ IsTransform(log[1][Len(log[1])])

(***************************************************************************)
(* C19.  Over any sequence of prepare_dataset calls, successful or         *)
(* failing, forced or not, no step removes a directory, a file or an       *)
(* archive that exists: the sets of existing paths only grow.              *)
(***************************************************************************)
C19_PathsOnlyGrow ==
    [][/\ dirs \subseteq dirs'
       /\ files \subseteq files'
       /\ DOMAIN archive \subseteq DOMAIN archive']_vars

\* a source fetched by an earlier call is still there after a forced refresh
\* whose fetch of it failed
C19_Witness ==
    /\ Len(hist) = 1
    /\ hist[1].returned
    /\ Len(Fetches(hist[1].log)) = 1
    /\ call[1].force_redownload = PyTrue
    /\ pc[1] = "raised"
    /\ Len(Fetches(log[1])) = 1
    /\ Fetches(log[1])[1].status # 0
    /\ Abs(Fetches(log[1])[1].path) = Abs(Fetches(hist[1].log)[1].path)
    /\ Abs(Fetches(log[1])[1].path) \in files

\* some call has fetched the source url with exit status zero
FetchedByOne(url) ==
    \E q \in Procs : \E j \in DOMAIN log[q] :
        /\ IsDatasetFetch(log[q][j])
        /\ log[q][j].url = url
        /\ log[q][j].status = 0

\* process p failed, and not on a fetch of a dataset source
FailedOtherwise(p) ==
    /\ pc[p] = "raised"
    /\ ~ ( /\ exc[p].type = "Exception"
           /\ log[p] # <<>>
           /\ IsDatasetFetch(log[p][Len(log[p])])
           /\ log[p][Len(log[p])].status # 0 )

(***************************************************************************)
(* C20 as stated.  Under every interleaving of two concurrent non-forced   *)
(* calls for the same non-custom dataset on a fresh storage root, neither  *)
(* call fails because of directory creation, and no call has invoked the   *)
(* transform unless every declared source of the dataset has been fetched  *)
(* with exit status zero by one of the calls.                              *)
(***************************************************************************)
C20_TransformAfterAllFetched ==
    \A p \in Procs :
        /\ ~ FailedOtherwise(p)
        /\ Transforms(log[p]) # <<>> =>
              \A i \in DOMAIN d[p].cls.urls : FetchedByOne(d[p].cls.urls[i])

(***************************************************************************)
(* C20 as amended.  Under every such interleaving neither call fails       *)
(* because of directory creation (a call fails only on a fetch of its      *)
(* own), and a call invokes the transform either after it has itself       *)
(* fetched every declared source with exit status zero, or without any     *)
(* fetch of its own when it found storageRoot/name present, created by the *)
(* other call; in that case nothing is said about the sources.             *)
(***************************************************************************)
C20_TransformAfterOwnFetchesOrPresence ==
    \A p \in Procs :
        /\ ~ FailedOtherwise(p)
        /\ existed[p] =>
              \E q \in Procs \ {p} : \E j \in DOMAIN log[q] :
                  /\ log[q][j].op = "makedirs"
                  /\ Abs(log[q][j].path) = DatasetDir(data_dir[p], d[p].cls.name)
        /\ Transforms(log[p]) # <<>> =>
              LET fs == Fetches(log[p])
              IN  IF existed[p] THEN fs = <<>>
                  ELSE /\ Len(fs) = Len(d[p].cls.urls)
                       /\ \A i \in DOMAIN fs :
                             fs[i].url = d[p].cls.urls[i] /\ fs[i].status = 0

\* one call has run the transform while the other, which created the
\* directory, has not fetched anything yet
C20_Witness ==
    /\ pc[2] = "done"
    /\ existed[2]
    /\ Len(Transforms(log[2])) = 1
    /\ Fetches(log[2]) = <<>>
    /\ pc[1] = "wget"
    /\ Fetches(log[1]) = <<>>
    /\ \A q \in Procs : \A j \in DOMAIN log[q] : log[q][j].op = "wget" => log[q][j].status = 0

====
